---- MODULE Spec2Model ----
(***************************************************************************)
(* Housie ticket generator and validator.                                  *)
(*                                                                         *)
(* generateHousieTicket exists three times in the repository: the client   *)
(* generator (src/src/utils/ticketGenerator.ts), the buy-ticket edge       *)
(* function (src/unnamed/part_001) and the fix-tickets edge function       *)
(* (src/supabase/functions/fix-tickets/index.ts).  The variable variant    *)
(* selects which of the three bodies a behaviour runs.                     *)
(*                                                                         *)
(* Randomness.  Math.floor(Math.random() * n) at the call sites of         *)
(* generateHousieTicket (batch size, normalisation pick) is a free choice  *)
(* among the RandWidth lowest and RandWidth highest values of 0..n-1.      *)
(* The draws inside shuffleArray come from a seeded stream (rng): the seed *)
(* is chosen freely in 0..MaxSeed when the generator starts, and the       *)
(* Fisher-Yates loop is computed step by step from that stream.            *)
(***************************************************************************)
EXTENDS Integers, Sequences, FiniteSets, TLC

VARIABLES variant, pc, col, columnCounts, columnNumbers, totalNumbers,
          columnsToUse, rng, grid, flatNumbers, thrown,
          numbers, validation, edits,
          ticketGrid, caller, analysis,
          tickets, refused, dryRun, tool, invalidTickets, at, results, fixPc

genVars == <<variant, pc, col, columnCounts, columnNumbers, totalNumbers,
             columnsToUse, rng, grid, flatNumbers, thrown>>

\* a stored ticket value, the validator's report on it, the edits made to it
valVars == <<numbers, validation, edits>>

\* the grid the HousieTicket component has laid out, the caller of the
\* running generateHousieTicket, and the grid analyzeTicket has built
showVars == <<ticketGrid, caller, analysis>>

\* the tickets table, the ids of the rows whose update the database refuses,
\* the arguments of a migration run (which of the two implementations runs,
\* and dryRun), the invalid tickets it has found, its place in the loop over
\* them, its results so far and its position
migVars == <<tickets, refused, dryRun, tool, invalidTickets, at, results, fixPc>>

vars == <<genVars, valVars, showVars, migVars>>

(* ---------------------------- bounds ----------------------------------- *)
MaxSeed == 7
RandWidth == 1
MaxEdits == 2
MaxTickets == 2

(* ------------------------- program constants --------------------------- *)
targetNumbers == 15

Variants == {"client", "buy", "fix"}

Cols == 0..8
Rows == 0..2

RangeTable ==
  << <<1, 9>>, <<10, 19>>, <<20, 29>>, <<30, 39>>, <<40, 49>>,
     <<50, 59>>, <<60, 69>>, <<70, 79>>, <<80, 90>> >>

\* mutation: the first column's range runs into the second
columnRangesTypo ==
  [c \in Cols |-> IF c = 0 THEN <<1, 10>> ELSE RangeTable[c + 1]]

\* the table of generateHousieTicket
columnRanges == [c \in Cols |-> RangeTable[c + 1]]

\* the table validateTicket declares for its range check
columnRangesOfCheck == [c \in Cols |-> RangeTable[c + 1]]

\* mutation: the second column's range swallows the third
columnRangesOfValidatorTypo ==
  [c \in Cols |-> IF c = 1 THEN <<10, 29>> ELSE RangeTable[c + 1]]

\* the table validateExistingTicket declares for its column distribution
columnRangesOfValidator == [c \in Cols |-> RangeTable[c + 1]]

Min(a, b) == IF a < b THEN a ELSE b

(* ------------------------- the random source --------------------------- *)
\* Math.floor(Math.random() * n) at a call site of generateHousieTicket
RandomInt(n) == {j \in 0..(n - 1) : j < RandWidth \/ j >= n - RandWidth}

\* the seeded stream behind shuffleArray's Math.random()
NextRng(s) == (s * 25173 + 13849) % 65536

\* Math.floor(Math.random() * n) for the stream value s
RandomOf(s, n) == (s * n) \div 65536

(* --------------------------- array helpers ----------------------------- *)
Includes(seq, x) == \E i \in 1..Len(seq) : seq[i] = x

\* the position of seq[k] in the sorted array (Array.prototype.sort is stable)
RankIn(seq, k) ==
  Cardinality({j \in 1..Len(seq) :
                 seq[j] < seq[k] \/ (seq[j] = seq[k] /\ j < k)}) + 1

SortedValues(seq) ==
  [i \in 1..Len(seq) |-> seq[CHOOSE k \in 1..Len(seq) : RankIn(seq, k) = i]]

\* array.sort((a, b) => a - b); the array is bound by \in so that it is
\* computed once
SortAsc(seq) == CHOOSE sorted \in {SortedValues(a) : a \in {seq}} : TRUE

Swap(array, i, j) ==
  [array EXCEPT ![i + 1] = array[j + 1], ![j + 1] = array[i + 1]]

\* for (let i = array.length - 1; i > 0; i--) { j = floor(random * (i+1)); swap }
\* (the array and the stream value are bound by \in so that each iteration
\* computes them once)
RECURSIVE ShuffleFrom(_, _, _)
ShuffleFrom(array, i, s) ==
  IF i > 0
  THEN CHOOSE result \in
         {ShuffleFrom(Swap(a, i, RandomOf(s1, i + 1)), i - 1, s1) :
            a \in {array}, s1 \in {NextRng(s)}} : TRUE
  ELSE [array |-> array, rng |-> s]

shuffleArray(array, s) == ShuffleFrom(array, Len(array) - 1, s)

\* mutation: the numbers already chosen are not excluded
AvailableNumbersAll(c, chosen) ==
  LET min == columnRanges[c][1]
      max == columnRanges[c][2]
  IN [i \in 1..(max - min + 1) |-> min + i - 1]

\* for (let n = min; n <= max; n++) if (!columnNumbers[col].includes(n)) push(n)
AvailableNumbers(c, chosen) ==
  LET min == columnRanges[c][1]
      max == columnRanges[c][2]
      all == [i \in 1..(max - min + 1) |-> min + i - 1]
  IN SelectSeq(all, LAMBDA n : ~Includes(chosen, n))

(* --------------------------- the validator ----------------------------- *)
\* An entry of a stored list: a JavaScript number (v its value) or a value
\* of another type (a string, null, ...).
Num(v) == [isNumber |-> TRUE, v |-> v]
NonNumber == [isNumber |-> FALSE, v |-> 0]

\* A stored value (the numbers column is typed any): an array (items its
\* entries), a string (chars its characters) or a value of another type.
StoredArray(items) == [kind |-> "array", items |-> items, chars |-> <<>>]
StoredString(chars) == [kind |-> "string", items |-> <<>>, chars |-> chars]
StoredOther == [kind |-> "other", items |-> <<>>, chars |-> <<>>]

\* a flat array of numbers as a stored value
FlatArray(seq) == StoredArray([i \in 1..Len(seq) |-> Num(seq[i])])

(* JSON.parse, for texts without white space, fractions, exponents and
   string literals: null, {}, integers and arrays of such values.  A parsed
   value has a kind ("null", "object", "number", "array"), a number its value
   v, an array its elements as entries (an element that is not a number is an
   entry of another type). *)
DigitChars == <<"0", "1", "2", "3", "4", "5", "6", "7", "8", "9">>
IsDigit(ch) == \E d \in 1..10 : DigitChars[d] = ch
DigitOf(ch) == (CHOOSE d \in 1..10 : DigitChars[d] = ch) - 1

JsonValue(kind, v, items) == [kind |-> kind, v |-> v, items |-> items]
SyntaxError == [ok |-> FALSE, value |-> JsonValue("null", 0, <<>>), next |-> 0]
Parsed(value, next) == [ok |-> TRUE, value |-> value, next |-> next]

\* the digits from position i on: their value and the position after them
RECURSIVE ParseDigits(_, _, _)
ParseDigits(s, i, acc) ==
  IF i <= Len(s) /\ IsDigit(s[i])
  THEN ParseDigits(s, i + 1, 10 * acc + DigitOf(s[i]))
  ELSE [v |-> acc, next |-> i]

\* an integer without sign: 0, or digits that do not start with 0
ParseInt(s, i) ==
  IF i > Len(s) \/ ~IsDigit(s[i]) THEN [ok |-> FALSE, v |-> 0, next |-> 0]
  ELSE IF s[i] = "0" THEN [ok |-> TRUE, v |-> 0, next |-> i + 1]
  ELSE LET d == ParseDigits(s, i, 0) IN [ok |-> TRUE, v |-> d.v, next |-> d.next]

EntryOf(value) == IF value.kind = "number" THEN Num(value.v) ELSE NonNumber

RECURSIVE ParseValue(_, _)
RECURSIVE ParseElements(_, _, _)
ParseValue(s, i) ==
  IF i > Len(s) THEN SyntaxError
  ELSE IF s[i] = "n"
       THEN IF i + 3 <= Len(s) /\ SubSeq(s, i, i + 3) = <<"n", "u", "l", "l">>
            THEN Parsed(JsonValue("null", 0, <<>>), i + 4)
            ELSE SyntaxError
  ELSE IF s[i] = "{"
       THEN IF i + 1 <= Len(s) /\ s[i + 1] = "}"
            THEN Parsed(JsonValue("object", 0, <<>>), i + 2)
            ELSE SyntaxError
  ELSE IF s[i] = "["
       THEN IF i + 1 <= Len(s) /\ s[i + 1] = "]"
            THEN Parsed(JsonValue("array", 0, <<>>), i + 2)
            ELSE ParseElements(s, i + 1, <<>>)
  ELSE IF s[i] = "-"
       THEN LET n == ParseInt(s, i + 1)
            IN IF n.ok THEN Parsed(JsonValue("number", 0 - n.v, <<>>), n.next)
               ELSE SyntaxError
  ELSE LET n == ParseInt(s, i)
       IN IF n.ok THEN Parsed(JsonValue("number", n.v, <<>>), n.next)
          ELSE SyntaxError

\* the elements of an array from position i on, up to the closing bracket
ParseElements(s, i, elements) ==
  LET e == ParseValue(s, i)
  IN IF ~e.ok \/ e.next > Len(s) THEN SyntaxError
     ELSE IF s[e.next] = ","
          THEN ParseElements(s, e.next + 1, Append(elements, EntryOf(e.value)))
     ELSE IF s[e.next] = "]"
          THEN Parsed(JsonValue("array", 0, Append(elements, EntryOf(e.value))),
                      e.next + 1)
     ELSE SyntaxError

\* JSON.parse(text): the value, or the SyntaxError it throws
JSONparse(s) ==
  LET r == ParseValue(s, 1)
  IN IF r.ok /\ r.next = Len(s) + 1 THEN r ELSE SyntaxError

\* an issue string: its template and the values interpolated into it
Issue(text, a, b) == [text |-> text, a |-> a, b |-> b]

\* the variable validation holds no report, or the one report last returned
NoReport == <<>>

\* mutation: zero passes the filter
ValidNumbersFromZero(items) ==
  LET kept == SelectSeq(items, LAMBDA e : e.isNumber /\ e.v >= 0)
  IN [i \in 1..Len(kept) |-> kept[i].v] \o <<>>

\* ticketNumbers.filter(n => typeof n === 'number' && n > 0)
ValidNumbers(items) ==
  LET kept == SelectSeq(items, LAMBDA e : e.isNumber /\ e.v > 0)
  IN [i \in 1..Len(kept) |-> kept[i].v] \o <<>>

\* mutation: only a short list is reported
CountIssuesShortOnly(validNumbers) ==
  IF Len(validNumbers) < 15
  THEN <<Issue("Has n numbers instead of 15", Len(validNumbers), 0)>>
  ELSE <<>>

\* if (validNumbers.length !== 15) issues.push(`Has ${n} numbers instead of 15`)
CountIssues(validNumbers) ==
  IF Len(validNumbers) # 15
  THEN <<Issue("Has n numbers instead of 15", Len(validNumbers), 0)>>
  ELSE <<>>

\* if (new Set(validNumbers).size !== validNumbers.length) issues.push(...)
DuplicateIssues(validNumbers) ==
  IF Cardinality({validNumbers[i] : i \in 1..Len(validNumbers)}) # Len(validNumbers)
  THEN <<Issue("Contains duplicate numbers", 0, 0)>>
  ELSE <<>>

\* mutation: the upper limit itself is reported
RECURSIVE RangeIssuesFromNinety(_, _)
RangeIssuesFromNinety(validNumbers, i) ==
  IF i > Len(validNumbers) THEN <<>>
  ELSE (IF validNumbers[i] < 1 \/ validNumbers[i] >= 90
        THEN <<Issue("Number n is outside valid range 1-90", validNumbers[i], 0)>>
        ELSE <<>>)
       \o RangeIssuesFromNinety(validNumbers, i + 1)

\* for (const num of validNumbers) if (num < 1 || num > 90) issues.push(...)
RECURSIVE RangeIssues(_, _)
RangeIssues(validNumbers, i) ==
  IF i > Len(validNumbers) THEN <<>>
  ELSE (IF validNumbers[i] < 1 \/ validNumbers[i] > 90
        THEN <<Issue("Number n is outside valid range 1-90", validNumbers[i], 0)>>
        ELSE <<>>)
       \o RangeIssues(validNumbers, i + 1)

\* the inner loop with its break: the first column whose range holds num, -1 if none
RECURSIVE ColumnOfFrom(_, _)
ColumnOfFrom(num, c) ==
  IF c > 8 THEN -1
  ELSE IF num >= columnRangesOfValidator[c][1] /\ num <= columnRangesOfValidator[c][2]
       THEN c
       ELSE ColumnOfFrom(num, c + 1)

\* columnCounts after the bucketing loop
ColumnCountsOf(validNumbers) ==
  LET columns == [i \in 1..Len(validNumbers) |->
                    ColumnOfFrom(validNumbers[i], 0)] \o <<>>
      count(c) == Cardinality({i \in 1..Len(validNumbers) : columns[i] = c})
      counts == <<count(0), count(1), count(2), count(3), count(4),
                  count(5), count(6), count(7), count(8)>>
  IN [c \in Cols |-> counts[c + 1]]

\* mutation: three numbers already count as an overflow
ColumnOverflowsAtThree(count) == count >= 3

\* if (columnCounts[col] > 3)
ColumnOverflows(count) == count > 3

\* mutation: the column is named by its index, not by its 1-based number
RECURSIVE ColumnIssuesZeroBased(_, _)
ColumnIssuesZeroBased(counts, c) ==
  IF c > 8 THEN <<>>
  ELSE (IF ColumnOverflows(counts[c])
        THEN <<Issue("Column k has m numbers (max 3 allowed)", c, counts[c])>>
        ELSE <<>>)
       \o ColumnIssuesZeroBased(counts, c + 1)

\* the issues of the overflowing columns, columns ascending
RECURSIVE ColumnIssues(_, _)
ColumnIssues(counts, c) ==
  IF c > 8 THEN <<>>
  ELSE (IF ColumnOverflows(counts[c])
        THEN <<Issue("Column k has m numbers (max 3 allowed)", c + 1, counts[c])>>
        ELSE <<>>)
       \o ColumnIssues(counts, c + 1)

\* if (hasColumnIssues) issues.push('Ticket needs regeneration ...')
RegenerationIssues(counts) ==
  IF \E c \in Cols : ColumnOverflows(counts[c])
  THEN <<Issue("Ticket needs regeneration for proper Housie format", 0, 0)>>
  ELSE <<>>

\* mutation: a JSON value that is not an array is taken as the empty list
TicketNumbersOfLenient(stored) ==
  IF stored.kind = "string"
  THEN LET parsed == JSONparse(stored.chars)
       IN IF parsed.ok
          THEN [outcome |-> "assigned", value |-> JsonValue("array", 0, parsed.value.items)]
          ELSE [outcome |-> "thrown", value |-> parsed.value]
  ELSE IF stored.kind = "array"
       THEN [outcome |-> "assigned", value |-> JsonValue("array", 0, stored.items)]
       ELSE [outcome |-> "returned", value |-> JsonValue("null", 0, <<>>)]

\* the conversion at the head of validateExistingTicket: ticketNumbers is
\* assigned, JSON.parse throws, or the function returns at once
TicketNumbersOf(stored) ==
  IF stored.kind = "string"
  THEN LET parsed == JSONparse(stored.chars)
       IN IF parsed.ok
          THEN [outcome |-> "assigned", value |-> parsed.value]
          ELSE [outcome |-> "thrown", value |-> parsed.value]
  ELSE IF stored.kind = "array"
       THEN [outcome |-> "assigned", value |-> JsonValue("array", 0, stored.items)]
       ELSE [outcome |-> "returned", value |-> JsonValue("null", 0, <<>>)]

\* catch (error) { return { isValid: false, issues: [`Error validating ticket: ${error}`] } }
CaughtReport(error) ==
  [isValid |-> FALSE,
   issues |-> <<Issue(IF error = "SyntaxError"
                      THEN "Error validating ticket: SyntaxError"
                      ELSE "Error validating ticket: TypeError", 0, 0)>>]

\* validateExistingTicket on a stored value: a flat array, a string or a
\* value that is neither.  ticketNumbers.filter throws a TypeError when the
\* text parsed to a value that is not an array.
validateExistingTicket(stored) ==
  LET ticketNumbers == TicketNumbersOf(stored)
  IN IF ticketNumbers.outcome = "returned"
     THEN [isValid |-> FALSE, issues |-> <<Issue("Invalid number format", 0, 0)>>]
     ELSE IF ticketNumbers.outcome = "thrown"
     THEN CaughtReport("SyntaxError")
     ELSE IF ticketNumbers.value.kind # "array"
     THEN CaughtReport("TypeError")
     ELSE LET validNumbers == ValidNumbers(ticketNumbers.value.items)
              counts == ColumnCountsOf(validNumbers)
              issues == CountIssues(validNumbers)
                        \o DuplicateIssues(validNumbers)
                        \o RangeIssues(validNumbers, 1)
                        \o ColumnIssues(counts, 0)
                        \o RegenerationIssues(counts)
          IN [isValid |-> Len(issues) = 0, issues |-> issues]

(* ------------------- the validator of the ticket viewer ---------------- *)
\* mutation: the last column ends at 89
columnRangesOfFormatShort ==
  [c \in Cols |-> IF c = 8 THEN <<80, 89>> ELSE RangeTable[c + 1]]

\* the table validateTicketFormat declares for its column distribution
columnRangesOfFormat == [c \in Cols |-> RangeTable[c + 1]]

\* the inner loop with its break: the first column whose range holds num
RECURSIVE ColumnOfFormatFrom(_, _)
ColumnOfFormatFrom(num, c) ==
  IF c > 8 THEN -1
  ELSE IF num >= columnRangesOfFormat[c][1] /\ num <= columnRangesOfFormat[c][2]
       THEN c
       ELSE ColumnOfFormatFrom(num, c + 1)

\* mutation: the vector has a tenth element
ColumnCountsOfFormatTen(validNumbers) ==
  LET columns == [i \in 1..Len(validNumbers) |->
                    ColumnOfFormatFrom(validNumbers[i], 0)] \o <<>>
      count(c) == Cardinality({i \in 1..Len(validNumbers) : columns[i] = c})
  IN <<count(0), count(1), count(2), count(3), count(4),
       count(5), count(6), count(7), count(8), count(9)>>

\* columnCounts (Array(9).fill(0)) after the bucketing loop, as an array
ColumnCountsOfFormat(validNumbers) ==
  LET columns == [i \in 1..Len(validNumbers) |->
                    ColumnOfFormatFrom(validNumbers[i], 0)] \o <<>>
      count(c) == Cardinality({i \in 1..Len(validNumbers) : columns[i] = c})
  IN <<count(0), count(1), count(2), count(3), count(4),
       count(5), count(6), count(7), count(8)>>

\* the issues of the overflowing columns, columns ascending
RECURSIVE ColumnIssuesOfFormat(_, _)
ColumnIssuesOfFormat(counts, c) ==
  IF c > 8 THEN <<>>
  ELSE (IF counts[c + 1] > 3
        THEN <<Issue("Column k has m numbers (max 3 allowed)", c + 1, counts[c + 1])>>
        ELSE <<>>)
       \o ColumnIssuesOfFormat(counts, c + 1)

\* validateTicketFormat(ticket.numbers): ticketNumbers.filter throws a
\* TypeError when the stored value is not an array, and the catch clause
\* returns the report with the empty vector
validateTicketFormat(stored) ==
  IF stored.kind # "array"
  THEN [isValid |-> FALSE,
        issues |-> <<Issue("Error validating: TypeError", 0, 0)>>,
        columnCounts |-> <<>>,
        isProperFormat |-> FALSE]
  ELSE LET validNumbers == ValidNumbers(stored.items)
           counts == ColumnCountsOfFormat(validNumbers)
           hasColumnIssues == \E k \in 1..Len(counts) : counts[k] > 3
           issues == CountIssues(validNumbers)
                     \o DuplicateIssues(validNumbers)
                     \o RangeIssues(validNumbers, 1)
                     \o ColumnIssuesOfFormat(counts, 0)
                     \o (IF hasColumnIssues
                         THEN <<Issue("Not proper Housie format", 0, 0)>>
                         ELSE <<>>)
       IN [isValid |-> Len(issues) = 0,
           issues |-> issues,
           columnCounts |-> counts,
           isProperFormat |-> ~hasColumnIssues /\ Len(issues) = 0]

(* ------------------------------ Init ----------------------------------- *)
EmptyGrid == [r \in Rows |-> [c \in Cols |-> 0]]

\* const results = { processed: 0, fixed: 0, failed: 0, errors: [] }
NoResults == [processed |-> 0, fixed |-> 0, failed |-> 0, errors |-> <<>>]

\* no migration is running
NoMigration ==
  /\ tickets = <<>>
  /\ refused = {}
  /\ dryRun = TRUE
  /\ tool = "client"
  /\ invalidTickets = <<>>
  /\ at = 0
  /\ results = NoResults
  /\ fixPc = "idle"

Init ==
  /\ variant \in Variants
  /\ rng \in 0..MaxSeed
  /\ pc = "sweep"
  /\ col = 0
  /\ columnCounts = [c \in Cols |-> 0]
  /\ columnNumbers = [c \in Cols |-> <<>>]
  /\ totalNumbers = 0
  /\ columnsToUse = {}
  /\ grid = EmptyGrid
  /\ flatNumbers = <<>>
  /\ thrown = "none"
  /\ numbers = StoredArray(<<>>)
  /\ validation = NoReport
  /\ edits = 0
  /\ ticketGrid = <<>>
  /\ analysis = <<>>
  /\ caller = "handler"
  /\ NoMigration

(* --------------------------- the sweep --------------------------------- *)
\* mutation: the batch size is not capped by canAdd
NumbersToAddUncapped(canAdd, b) == b + 1

\* Math.min(canAdd, Math.floor(Math.random() * 2) + 1), b the floored draw
NumbersToAdd(canAdd, b) == Min(canAdd, b + 1)

\* one iteration of the for loop over the columns (body included)
SweepBody(b) ==
  IF columnCounts[col] < 3
  THEN LET canAdd == Min(3 - columnCounts[col], targetNumbers - totalNumbers)
           numbersToAdd == NumbersToAdd(canAdd, b)
           availableNumbers == AvailableNumbers(col, columnNumbers[col])
       IN /\ columnsToUse' = IF variant = "client" THEN columnsToUse \cup {col}
                             ELSE columnsToUse
          /\ IF Len(availableNumbers) >= numbersToAdd
             THEN LET sh == shuffleArray(availableNumbers, rng)
                      selectedNumbers == SortAsc(SubSeq(sh.array, 1, numbersToAdd))
                  IN /\ columnNumbers' =
                          [columnNumbers EXCEPT ![col] = @ \o selectedNumbers]
                     /\ columnCounts' = [columnCounts EXCEPT ![col] = @ + numbersToAdd]
                     /\ totalNumbers' = totalNumbers + numbersToAdd
                     /\ rng' = sh.rng
             ELSE /\ columnNumbers' =
                       [columnNumbers EXCEPT ![col] = @ \o SortAsc(availableNumbers)]
                  /\ columnCounts' = [columnCounts EXCEPT ![col] =
                       @ + numbersToAdd - (numbersToAdd - Len(availableNumbers))]
                  /\ totalNumbers' = totalNumbers + numbersToAdd
                                     - (numbersToAdd - Len(availableNumbers))
                  /\ rng' = rng
  ELSE UNCHANGED <<columnsToUse, columnNumbers, columnCounts, totalNumbers, rng>>

SweepColumn ==
  /\ pc = "sweep"
  /\ col < 9
  /\ totalNumbers < targetNumbers
  /\ \E b \in RandomInt(2) : SweepBody(b)
  /\ col' = col + 1
  /\ UNCHANGED <<variant, pc, grid, flatNumbers, thrown>>
  /\ UNCHANGED <<valVars, showVars, migVars>>

\* the for loop has ended: the safety break (client only) and the while test
SweepEnd ==
  /\ pc = "sweep"
  /\ ~(col < 9 /\ totalNumbers < targetNumbers)
  /\ IF variant = "client" /\ Cardinality(columnsToUse) = 9
     THEN pc' = "adjust" /\ col' = col
     ELSE IF totalNumbers < targetNumbers
          THEN pc' = "sweep" /\ col' = 0
          ELSE pc' = "adjust" /\ col' = col
  /\ UNCHANGED <<variant, columnCounts, columnNumbers, totalNumbers,
                 columnsToUse, rng, grid, flatNumbers, thrown>>
  /\ UNCHANGED <<valVars, showVars, migVars>>

(* ------------------------ the normalisation ---------------------------- *)
\* mutation: the capacity test is inverted, no column is ever found
CanTakeInverted(c) ==
  /\ columnCounts[c] > 3
  /\ Len(AvailableNumbers(c, columnNumbers[c])) > 0

\* columns the scan of the add loop can use
CanTake(c) ==
  /\ columnCounts[c] < 3
  /\ Len(AvailableNumbers(c, columnNumbers[c])) > 0

\* one iteration of while (totalNumbers < targetNumbers): the scan adds one
\* number to the first column that can take it, or finds none and comes round
AdjustAdd ==
  /\ pc = "adjust"
  /\ totalNumbers < targetNumbers
  /\ IF \E c \in Cols : CanTake(c)
     THEN LET c == CHOOSE c1 \in Cols :
                     CanTake(c1) /\ \A c2 \in Cols : CanTake(c2) => c1 <= c2
              availableNumbers == AvailableNumbers(c, columnNumbers[c])
          IN \E k \in RandomInt(Len(availableNumbers)) :
               LET randomNum == availableNumbers[k + 1]
               IN /\ columnNumbers' = [columnNumbers EXCEPT
                                         ![c] = SortAsc(Append(@, randomNum))]
                  /\ columnCounts' = [columnCounts EXCEPT ![c] = @ + 1]
                  /\ totalNumbers' = totalNumbers + 1
     ELSE UNCHANGED <<columnNumbers, columnCounts, totalNumbers>>
  /\ UNCHANGED <<variant, pc, col, columnsToUse, rng, grid, flatNumbers, thrown>>
  /\ UNCHANGED <<valVars, showVars, migVars>>

\* while (totalNumbers > targetNumbers): pop the last number of the first
\* non-empty column
RECURSIVE RemoveExcess(_)
RemoveExcess(st) ==
  IF st.totalNumbers > targetNumbers /\ \E c \in Cols : Len(st.columnNumbers[c]) > 0
  THEN LET c == CHOOSE c1 \in Cols :
                  /\ Len(st.columnNumbers[c1]) > 0
                  /\ \A c2 \in Cols : Len(st.columnNumbers[c2]) > 0 => c1 <= c2
       IN RemoveExcess(
            [columnNumbers |-> [st.columnNumbers EXCEPT
                                  ![c] = SubSeq(@, 1, Len(@) - 1)],
             columnCounts  |-> [st.columnCounts EXCEPT ![c] = @ - 1],
             totalNumbers  |-> st.totalNumbers - 1])
  ELSE st

(* --------------------------- row placement ----------------------------- *)
\* allNumbers: every number with its column, columns ascending
RECURSIVE AllNumbers(_, _)
AllNumbers(nums, c) ==
  IF c > 8 THEN <<>>
  ELSE [i \in 1..Len(nums[c]) |-> [num |-> nums[c][i], col |-> c]]
       \o AllNumbers(nums, c + 1)

\* mutation: the first row with a free cell is taken, whatever the counts
BestRowFirstFree(g, rowCounts, c, row, bestRow) ==
  IF \E r \in row..2 : rowCounts[r] < 5 /\ g[r][c] = 0
  THEN CHOOSE r \in row..2 :
         /\ rowCounts[r] < 5 /\ g[r][c] = 0
         /\ \A q \in row..2 : (rowCounts[q] < 5 /\ g[q][c] = 0) => r <= q
  ELSE bestRow

\* mutation: among equally filled rows the last one is kept
RECURSIVE BestRowFromTiesLast(_, _, _, _, _)
BestRowFromTiesLast(g, rowCounts, c, row, bestRow) ==
  IF row > 2 THEN bestRow
  ELSE IF rowCounts[row] < 5 /\ g[row][c] = 0
            /\ (bestRow = -1 \/ rowCounts[row] <= rowCounts[bestRow])
       THEN BestRowFromTiesLast(g, rowCounts, c, row + 1, row)
       ELSE BestRowFromTiesLast(g, rowCounts, c, row + 1, bestRow)

\* the scan for (row = 0; row < 3; row++) that keeps the best row so far
RECURSIVE BestRowFrom(_, _, _, _, _)
BestRowFrom(g, rowCounts, c, row, bestRow) ==
  IF row > 2 THEN bestRow
  ELSE IF rowCounts[row] < 5 /\ g[row][c] = 0
            /\ (bestRow = -1 \/ rowCounts[row] < rowCounts[bestRow])
       THEN BestRowFrom(g, rowCounts, c, row + 1, row)
       ELSE BestRowFrom(g, rowCounts, c, row + 1, bestRow)

\* mutation: the row count is not advanced
PlaceOneNoCount(st, item) ==
  LET bestRow == BestRowFrom(st.grid, st.rowCounts, item.col, 0, -1)
  IN IF bestRow # -1
     THEN [grid |-> [st.grid EXCEPT ![bestRow][item.col] = item.num],
           rowCounts |-> st.rowCounts]
     ELSE st

PlaceOne(st, item) ==
  LET bestRow == BestRowFrom(st.grid, st.rowCounts, item.col, 0, -1)
  IN IF bestRow # -1
     THEN [grid |-> [st.grid EXCEPT ![bestRow][item.col] = item.num],
           rowCounts |-> [st.rowCounts EXCEPT ![bestRow] = @ + 1]]
     ELSE st

\* for (const { num, col } of allNumbers): the grid so far is bound by \in so
\* that each iteration computes it once
RECURSIVE PlaceAll(_, _, _)
PlaceAll(st, items, k) ==
  IF k > Len(items) THEN st
  ELSE CHOOSE result \in
         {PlaceAll(PlaceOne(s, its[k]), its, k + 1) : s \in {st}, its \in {items}} : TRUE

PlaceNumbers(nums) ==
  PlaceAll([grid |-> EmptyGrid, rowCounts |-> [r \in Rows |-> 0]],
           AllNumbers(nums, 0), 1)

\* removal of the excess, then the placement of every number into the grid
PlaceInGrid ==
  /\ pc = "adjust"
  /\ ~(totalNumbers < targetNumbers)
  /\ LET st == RemoveExcess([columnNumbers |-> columnNumbers,
                             columnCounts |-> columnCounts,
                             totalNumbers |-> totalNumbers])
     IN /\ columnNumbers' = st.columnNumbers
        /\ columnCounts' = st.columnCounts
        /\ totalNumbers' = st.totalNumbers
        /\ grid' = PlaceNumbers(st.columnNumbers).grid
  /\ pc' = "placed"
  /\ UNCHANGED <<variant, col, columnsToUse, rng, flatNumbers, thrown>>
  /\ UNCHANGED <<valVars, showVars, migVars>>

(* ------------------------ the self-check ------------------------------- *)
NumbersInRow(g, row) == Cardinality({c \in Cols : g[row][c] # 0})
NumbersInCol(g, c) == Cardinality({row \in Rows : g[row][c] # 0})
Cells == Rows \X Cols
FilledCells(g) == {rc \in Cells : g[rc[1]][rc[2]] # 0}

\* the error validateTicket throws, "none" when it returns
validateTicket(g) ==
  IF \E row \in Rows : NumbersInRow(g, row) # 5 THEN "row"
  ELSE IF \E c \in Cols : NumbersInCol(g, c) > 3 THEN "column"
  ELSE IF Cardinality(FilledCells(g)) # 15 THEN "total"
  ELSE IF \E c \in Cols, row \in Rows :
            /\ g[row][c] # 0
            /\ (g[row][c] < columnRangesOfCheck[c][1]
                \/ g[row][c] > columnRangesOfCheck[c][2])
       THEN "range"
  ELSE IF Cardinality(FilledCells(g))
            # Cardinality({g[rc[1]][rc[2]] : rc \in FilledCells(g)})
       THEN "duplicate"
  ELSE "none"

\* the non-zero cells of the grid, row by row
RECURSIVE FlatFrom(_, _)
FlatFrom(g, i) ==
  IF i > 26 THEN <<>>
  ELSE LET v == g[i \div 9][i % 9]
       IN (IF v # 0 THEN <<v>> ELSE <<>>) \o FlatFrom(g, i + 1)

\* mutation: the final sort is missing
FlatNumbersUnsorted(g) == FlatFrom(g, 0)

\* flatNumbers.sort((a, b) => a - b) of the collected cells
FlatNumbersOf(g) == SortAsc(FlatFrom(g, 0))

\* validateTicket(grid) (not in the fix-tickets function), then the flat list
Finish ==
  /\ pc = "placed"
  /\ LET err == IF variant = "fix" THEN "none" ELSE validateTicket(grid)
     IN IF err # "none"
        THEN /\ thrown' = err
             /\ pc' = "failed"
             /\ flatNumbers' = flatNumbers
        ELSE /\ thrown' = thrown
             /\ pc' = "done"
             /\ flatNumbers' = FlatNumbersOf(grid)
  /\ UNCHANGED <<variant, col, columnCounts, columnNumbers, totalNumbers,
                 columnsToUse, rng, grid>>
  /\ UNCHANGED <<valVars, showVars, migVars>>

\* the finished ticket went through validateTicket(grid) and was let through:
\* the client generator and the buy-ticket generator call it before they
\* return, the generator of the fix-tickets function has no such call
SelfCheckPassed == pc = "done" /\ variant # "fix"

(* ---------------- the grid of the HousieTicket component --------------- *)
\* An entry of a list that is not a number is null here: null > 0 is false.
GreaterThanZero(e) == e.isNumber /\ e.v > 0

\* the head of the component: the prop as a list, [] when it is empty, not a
\* list, or a text that does not parse to a list
TicketNumbersOfProp(stored) ==
  IF stored.kind = "array" THEN stored.items
  ELSE IF stored.kind = "string"
       THEN LET parsed == JSONparse(stored.chars)
            IN IF parsed.ok /\ parsed.value.kind = "array"
               THEN parsed.value.items
               ELSE <<>>
       ELSE <<>>

\* pad with zeros or truncate to 15
PadOrTruncate(ticketNumbers) ==
  IF Len(ticketNumbers) < 15
  THEN ticketNumbers \o [i \in 1..(15 - Len(ticketNumbers)) |-> Num(0)]
  ELSE SubSeq(ticketNumbers, 1, 15)

\* the table the component declares
columnRangesOfTicket == [c \in Cols |-> RangeTable[c + 1]]

RECURSIVE ColumnOfTicketFrom(_, _)
ColumnOfTicketFrom(num, c) ==
  IF c > 8 THEN -1
  ELSE IF num >= columnRangesOfTicket[c][1] /\ num <= columnRangesOfTicket[c][2]
       THEN c
       ELSE ColumnOfTicketFrom(num, c + 1)

\* hasColumnOverflow after the counting loop
HasColumnOverflow(validNumbers) ==
  LET columns == [i \in 1..Len(validNumbers) |->
                    ColumnOfTicketFrom(validNumbers[i], 0)] \o <<>>
  IN \E c \in Cols : Cardinality({i \in 1..Len(validNumbers) : columns[i] = c}) > 3

\* mutation: the columns' lists are left in the order of the stored list
NumbersByColumnAsStored(validNumbers) ==
  LET columns == [i \in 1..Len(validNumbers) |->
                    ColumnOfTicketFrom(validNumbers[i], 0)] \o <<>>
      numbersOf(c) ==
        LET places == SelectSeq([i \in 1..Len(validNumbers) |-> i],
                            LAMBDA i : columns[i] = c)
        IN [k \in 1..Len(places) |-> validNumbers[places[k]]]
      lists == <<numbersOf(0), numbersOf(1), numbersOf(2), numbersOf(3),
                 numbersOf(4), numbersOf(5), numbersOf(6), numbersOf(7),
                 numbersOf(8)>>
  IN [c \in Cols |-> lists[c + 1]]

\* numbersbyColumn once every column's list is sorted (a column without
\* numbers has no key; for (const col in ...) visits the keys ascending)
NumbersByColumn(validNumbers) ==
  LET columns == [i \in 1..Len(validNumbers) |->
                    ColumnOfTicketFrom(validNumbers[i], 0)] \o <<>>
      numbersOf(c) ==
        LET places == SelectSeq([i \in 1..Len(validNumbers) |-> i],
                            LAMBDA i : columns[i] = c)
        IN SortAsc([k \in 1..Len(places) |-> validNumbers[places[k]]])
      lists == <<numbersOf(0), numbersOf(1), numbersOf(2), numbersOf(3),
                 numbersOf(4), numbersOf(5), numbersOf(6), numbersOf(7),
                 numbersOf(8)>>
  IN [c \in Cols |-> lists[c + 1]]

\* mutation: the scan over the rows is missing, bestRow stays 0
BestRowOfTicketNoScan(rowCounts) == 0

\* let bestRow = 0; for (row = 1; row < 3; row++) if (fewer and below 5) ...
BestRowOfTicket(rowCounts) ==
  LET first == IF rowCounts[1] < rowCounts[0] /\ rowCounts[1] < 5 THEN 1 ELSE 0
  IN IF rowCounts[2] < rowCounts[first] /\ rowCounts[2] < 5 THEN 2 ELSE first

\* if (rowCounts[bestRow] < 5) { grid[bestRow][col] = num; rowCounts[bestRow]++ }
PlaceOnTicket(st, item) ==
  LET bestRow == BestRowOfTicket(st.rowCounts)
  IN IF st.rowCounts[bestRow] < 5
     THEN [grid |-> [st.grid EXCEPT ![bestRow][item.col] = item.num],
           rowCounts |-> [st.rowCounts EXCEPT ![bestRow] = @ + 1]]
     ELSE st

RECURSIVE PlaceAllOnTicket(_, _, _)
PlaceAllOnTicket(st, items, k) ==
  IF k > Len(items) THEN st
  ELSE CHOOSE result \in
         {PlaceAllOnTicket(PlaceOnTicket(s, its[k]), its, k + 1) :
            s \in {st}, its \in {items}} : TRUE

\* the layout made by hand: group by column, sort, place row by row
ManualGrid(validNumbers) ==
  (CHOOSE result \in
     {PlaceAllOnTicket([grid |-> EmptyGrid, rowCounts |-> [r \in Rows |-> 0]],
                       items, 1) :
        items \in {AllNumbers(NumbersByColumn(validNumbers), 0)}} : TRUE).grid

\* the simple layout: the first 15 entries, 5 to a row, in the first 5 columns
FallbackGrid(ticketNumbers) ==
  [r \in Rows |->
     [c \in Cols |->
        IF /\ c < 5
           /\ 5 * r + c + 1 <= Min(15, Len(ticketNumbers))
           /\ GreaterThanZero(ticketNumbers[5 * r + c + 1])
        THEN ticketNumbers[5 * r + c + 1].v
        ELSE 0]]

\* What the component does with its prop: it lays the numbers out by hand,
\* falls back to the simple layout (also when convertFlatToGrid throws
\* 'Expected 15 numbers'), or has convertFlatToGrid generate a ticket.
HousieTicketPlan(stored) ==
  LET ticketNumbers == PadOrTruncate(TicketNumbersOfProp(stored))
      kept == SelectSeq(ticketNumbers, GreaterThanZero)
      validNumbers == [i \in 1..Len(kept) |-> kept[i].v]
  IN IF Len(kept) > 0
     THEN IF HasColumnOverflow(validNumbers)
          THEN IF Len(validNumbers) # 15
               THEN [step |-> "fallback", grid |-> FallbackGrid(ticketNumbers)]
               ELSE [step |-> "generate", grid |-> EmptyGrid]
          ELSE [step |-> "layout", grid |-> ManualGrid(validNumbers)]
     ELSE [step |-> "fallback", grid |-> FallbackGrid(ticketNumbers)]

NoGrid == <<>>

\* the component renders the prop; generateHousieTicket starts afresh when
\* convertFlatToGrid calls it
HousieTicket(prop) ==
  /\ ticketGrid = NoGrid
  /\ LET plan == CHOOSE p \in {HousieTicketPlan(stored) : stored \in {prop}} : TRUE
     IN IF plan.step = "generate"
        THEN /\ variant' = "client"
             /\ rng' = rng
             /\ pc' = "sweep"
             /\ col' = 0
             /\ columnCounts' = [c \in Cols |-> 0]
             /\ columnNumbers' = [c \in Cols |-> <<>>]
             /\ totalNumbers' = 0
             /\ columnsToUse' = {}
             /\ grid' = EmptyGrid
             /\ flatNumbers' = <<>>
             /\ thrown' = "none"
             /\ caller' = "convertFlatToGrid"
             /\ ticketGrid' = ticketGrid
        ELSE /\ ticketGrid' = <<plan.grid>>
             /\ pc' = "shown"
             /\ UNCHANGED <<variant, col, columnCounts, columnNumbers, totalNumbers,
                            columnsToUse, rng, grid, flatNumbers, thrown, caller>>
  /\ UNCHANGED <<valVars, migVars, analysis>>

\* the ticket just generated is shown: <HousieTicket numbers={flatNumbers} />
ShowResult ==
  /\ pc = "done"
  /\ caller = "handler"
  /\ HousieTicket(FlatArray(flatNumbers))

\* a stored ticket is shown: <HousieTicket numbers={ticket.numbers} />
ShowStored ==
  /\ pc = "idle"
  /\ HousieTicket(numbers)

\* convertFlatToGrid returns properTicket.grid, or generateHousieTicket has
\* thrown and the component's catch clause makes the simple layout
ConvertReturn ==
  /\ caller = "convertFlatToGrid"
  /\ pc \in {"done", "failed"}
  /\ ticketGrid = NoGrid
  /\ ticketGrid' = IF pc = "done"
                   THEN <<grid>>
                   ELSE <<FallbackGrid(PadOrTruncate(TicketNumbersOfProp(numbers)))>>
  /\ pc' = "shown"
  /\ UNCHANGED <<variant, col, columnCounts, columnNumbers, totalNumbers,
                 columnsToUse, rng, grid, flatNumbers, thrown, caller>>
  /\ UNCHANGED <<valVars, migVars, analysis>>

(* ------------------- the grid of analyzeTicket ------------------------- *)
\* What analyzeTicket does with ticket.numbers to find the completed lines.
\* Without drawn numbers it returns before it builds a grid (analysis stays
\* as it is); a value that is no list has no filter method. There is no padding and no truncation: the
\* layout by hand is for exactly 15 numbers above zero, every other list
\* gets the simple layout.
AnalyzeTicketPlan(stored, anyDrawn) ==
  IF ~anyDrawn THEN [step |-> "early", grid |-> EmptyGrid]
  ELSE IF stored.kind # "array" THEN [step |-> "throws", grid |-> EmptyGrid]
  ELSE LET ticketNumbers == stored.items
           kept == SelectSeq(ticketNumbers, GreaterThanZero)
           validNumbers == [i \in 1..Len(kept) |-> kept[i].v] \o <<>>
       IN IF Len(validNumbers) = 15
          THEN IF HasColumnOverflow(validNumbers)
               THEN [step |-> "generate", grid |-> EmptyGrid]
               ELSE [step |-> "layout", grid |-> ManualGrid(validNumbers)]
          ELSE [step |-> "fallback", grid |-> FallbackGrid(ticketNumbers)]

\* const analysis = analyzeTicket(ticket.numbers): generateHousieTicket
\* starts afresh when convertFlatToGrid calls it
analyzeTicket(ticketNumbers) ==
  /\ analysis = NoGrid
  /\ \E anyDrawn \in BOOLEAN :
       LET plan == CHOOSE p \in {AnalyzeTicketPlan(stored, anyDrawn) :
                                   stored \in {ticketNumbers}} : TRUE
       IN IF plan.step = "generate"
          THEN /\ variant' = "client"
               /\ rng' = rng
               /\ pc' = "sweep"
               /\ col' = 0
               /\ columnCounts' = [c \in Cols |-> 0]
               /\ columnNumbers' = [c \in Cols |-> <<>>]
               /\ totalNumbers' = 0
               /\ columnsToUse' = {}
               /\ grid' = EmptyGrid
               /\ flatNumbers' = <<>>
               /\ thrown' = "none"
               /\ caller' = "analyzeTicket"
               /\ analysis' = analysis
          ELSE IF plan.step = "early"
          THEN UNCHANGED <<genVars, caller, analysis>>
          ELSE /\ analysis' = <<plan>>
               /\ UNCHANGED <<genVars, caller>>
  /\ UNCHANGED <<valVars, migVars, ticketGrid>>

\* the shown ticket is analysed (the tickets dialog renders both)
AnalyzeStored ==
  /\ pc = "shown"
  /\ analyzeTicket(numbers)

\* convertFlatToGrid returns properTicket.grid to analyzeTicket, or
\* generateHousieTicket has thrown and the catch clause makes the simple layout
AnalysisReturn ==
  /\ caller = "analyzeTicket"
  /\ pc \in {"done", "failed"}
  /\ analysis = NoGrid
  /\ analysis' = IF pc = "done"
                 THEN <<[step |-> "generate", grid |-> grid]>>
                 ELSE <<[step |-> "fallback", grid |-> FallbackGrid(numbers.items)]>>
  /\ pc' = "shown"
  /\ UNCHANGED <<variant, col, columnCounts, columnNumbers, totalNumbers,
                 columnsToUse, rng, grid, flatNumbers, thrown, caller>>
  /\ UNCHANGED <<valVars, migVars, ticketGrid>>

Next == SweepColumn \/ SweepEnd \/ AdjustAdd \/ PlaceInGrid \/ Finish

Spec == Init /\ [][Next]_vars

\* a ticket is generated and then shown
NextResult ==
  SweepColumn \/ SweepEnd \/ AdjustAdd \/ PlaceInGrid \/ Finish \/ ShowResult

SpecResult == Init /\ [][NextResult]_vars

\* Termination does not depend on which numbers the shuffle selects: the
\* runs checked for it start from one seed.
FairInit == Init /\ rng = 0

\* the generator is sequential code: whenever a step is possible it is taken
FairSpec == FairInit /\ [][Next]_vars /\ WF_vars(Next)

(* ------------------ stored tickets under validation -------------------- *)
\* The numbers column of a TicketRecord is typed any: a stored list is a
\* ticket of the current format or a legacy list, changed in up to MaxEdits
\* places before it is validated or shown.
ProperTicket == <<4, 9, 10, 19, 23, 30, 39, 45, 51, 58, 60, 69, 77, 80, 90>>
LegacyTicket == <<1, 2, 3, 4, 5, 6, 7, 8, 9, 10, 11, 12, 13, 14, 15>>
PackedTicket == <<1, 5, 9, 11, 15, 19, 21, 25, 29, 31, 35, 39, 41, 45, 49>>

StoredEntries ==
  {Num(v) : v \in {-1, 0, 5, 8, 91, 95}} \cup {NonNumber}

\* stored texts: an array, a number, null, an object, a cut-off array, a
\* word, the empty text
StoredTexts ==
  { <<"[", "5", ",", "-", "1", ",", "n", "u", "l", "l", ",", "9", "5", "]">>,
    <<"1", "5">>,
    <<"n", "u", "l", "l">>,
    <<"{", "}">>,
    <<"[", "5", ",">>,
    <<"a", "b", "c">>,
    <<>> }

GenIdle ==
  /\ variant = "client"
  /\ rng = 0
  /\ pc = "idle"
  /\ col = 0
  /\ columnCounts = [c \in Cols |-> 0]
  /\ columnNumbers = [c \in Cols |-> <<>>]
  /\ totalNumbers = 0
  /\ columnsToUse = {}
  /\ grid = EmptyGrid
  /\ flatNumbers = <<>>
  /\ thrown = "none"
  /\ ticketGrid = <<>>
  /\ analysis = <<>>
  /\ caller = "none"
  /\ NoMigration

InitVal ==
  /\ GenIdle
  /\ numbers \in {FlatArray(ProperTicket), FlatArray(LegacyTicket),
                  FlatArray(PackedTicket), StoredOther}
                 \cup {StoredString(text) : text \in StoredTexts}
  /\ validation = NoReport
  /\ edits = 0

\* an entry of the stored list is overwritten
ReplaceEntry ==
  /\ pc = "idle"
  /\ edits < MaxEdits
  /\ numbers.kind = "array"
  /\ \E i \in 1..Len(numbers.items), e \in StoredEntries :
       numbers' = [numbers EXCEPT !.items[i] = e]
  /\ edits' = edits + 1
  /\ validation' = NoReport
  /\ UNCHANGED <<genVars, showVars, migVars>>

\* an entry is appended to the stored list
AppendEntry ==
  /\ pc = "idle"
  /\ edits < MaxEdits
  /\ numbers.kind = "array"
  /\ \E e \in StoredEntries :
       numbers' = [numbers EXCEPT !.items = Append(@, e)]
  /\ edits' = edits + 1
  /\ validation' = NoReport
  /\ UNCHANGED <<genVars, showVars, migVars>>

\* the last entry of the stored list is dropped
DropEntry ==
  /\ pc = "idle"
  /\ edits < MaxEdits
  /\ numbers.kind = "array"
  /\ Len(numbers.items) > 0
  /\ numbers' = [numbers EXCEPT !.items = SubSeq(@, 1, Len(@) - 1)]
  /\ edits' = edits + 1
  /\ validation' = NoReport
  /\ UNCHANGED <<genVars, showVars, migVars>>

\* const validation = validateExistingTicket(ticket.numbers)
Validate ==
  /\ validation = NoReport
  /\ validation' = <<validateExistingTicket(numbers)>>
  /\ UNCHANGED <<numbers, edits>>
  /\ UNCHANGED <<genVars, showVars, migVars>>

NextVal == ReplaceEntry \/ AppendEntry \/ DropEntry \/ Validate

SpecVal == InitVal /\ [][NextVal]_vars

(* ------------------- stored tickets laid out by hand ------------------- *)
\* a stored list is shown as it is; no ticket is generated for it here
NextLayout == ReplaceEntry \/ AppendEntry \/ DropEntry \/ ShowStored

SpecLayout == InitVal /\ [][NextLayout]_vars

(* ---------------- stored tickets shown and analysed -------------------- *)
\* a stored list is shown by HousieTicket and analysed by analyzeTicket
NextCompare ==
  ReplaceEntry \/ AppendEntry \/ DropEntry \/ ShowStored \/ AnalyzeStored

\* the lists that can be laid out by hand: the proper and the packed ticket,
\* changed in up to MaxEdits places
InitCompare ==
  /\ GenIdle
  /\ numbers \in {FlatArray(ProperTicket), FlatArray(PackedTicket)}
  /\ validation = NoReport
  /\ edits = 0

SpecCompare == InitCompare /\ [][NextCompare]_vars

(* ------------- stored tickets that are regenerated for show ------------ *)
\* legacy lists of 15, 14 and 16 numbers, all with more than 3 numbers in the
\* first column range
OverflowLists ==
  {LegacyTicket, SubSeq(LegacyTicket, 1, 14), Append(LegacyTicket, 16)}

InitShow ==
  /\ variant = "client"
  /\ rng \in 0..MaxSeed
  /\ pc = "idle"
  /\ col = 0
  /\ columnCounts = [c \in Cols |-> 0]
  /\ columnNumbers = [c \in Cols |-> <<>>]
  /\ totalNumbers = 0
  /\ columnsToUse = {}
  /\ grid = EmptyGrid
  /\ flatNumbers = <<>>
  /\ thrown = "none"
  /\ numbers \in {FlatArray(list) : list \in OverflowLists}
  /\ validation = NoReport
  /\ edits = 0
  /\ ticketGrid = NoGrid
  /\ analysis = NoGrid
  /\ caller = "none"
  /\ NoMigration

\* the list is shown; convertFlatToGrid has generateHousieTicket make a grid
NextShow ==
  \/ ShowStored
  \/ SweepColumn
  \/ SweepEnd
  \/ AdjustAdd
  \/ PlaceInGrid
  \/ Finish
  \/ ConvertReturn

SpecShow == InitShow /\ [][NextShow]_vars

(* ------------------------ the ticket migration ------------------------- *)
\* fixInvalidTickets (tool "client") and the fix action of the fix-tickets
\* edge function (tool "edge")
Tools == {"client", "edge"}

\* a row of the tickets table; rows are created one after the other
TicketRow(i, stored) ==
  [id |-> i, numbers |-> stored, game_id |-> "game", user_id |-> "user",
   created_at |-> i, updated_at |-> i]

\* what the numbers column of a row holds before the migration
StoredTickets ==
  {FlatArray(ProperTicket), FlatArray(LegacyTicket), StoredOther}

\* new Date() of a migration run: later than every row's creation
Now == MaxTickets + 1

\* the rows that validateExistingTicket rejects
IsInvalid(ticket) == ~validateExistingTicket(ticket.numbers).isValid

\* if (!validation.isValid) invalidTickets.push({ ticket, issues })
InvalidTicket(ticket, report) ==
  IF ~report.isValid
  THEN <<[ticket |-> ticket, issues |-> report.issues]>>
  ELSE <<>>

\* for (const ticket of tickets): the rejected rows with their issues
RECURSIVE InvalidTicketsFrom(_, _)
InvalidTicketsFrom(table, i) ==
  IF i > Len(table) THEN <<>>
  ELSE InvalidTicket(table[i], validateExistingTicket(table[i].numbers))
         \o InvalidTicketsFrom(table, i + 1)

\* a migration is about to run: no generator is running, nothing is found yet
MigrationStart ==
  /\ variant = "client"
  /\ rng = 0
  /\ pc = "idle"
  /\ col = 0
  /\ columnCounts = [c \in Cols |-> 0]
  /\ columnNumbers = [c \in Cols |-> <<>>]
  /\ totalNumbers = 0
  /\ columnsToUse = {}
  /\ grid = EmptyGrid
  /\ flatNumbers = <<>>
  /\ thrown = "none"
  /\ ticketGrid = NoGrid
  /\ analysis = NoGrid
  /\ caller = "none"
  /\ numbers = StoredArray(<<>>)
  /\ validation = NoReport
  /\ edits = 0
  /\ invalidTickets = <<>>
  /\ at = 0
  /\ results = NoResults
  /\ fixPc = "start"

\* the migration starts on a table of up to MaxTickets rows; a run that is
\* not a dry run finds at most one invalid row, whose update the database
\* accepts or refuses
InitFix ==
  /\ MigrationStart
  /\ \E n \in 0..MaxTickets : \E stored \in [1..n -> StoredTickets] :
       tickets = [i \in 1..n |-> TicketRow(i, stored[i])] \o <<>>
  /\ dryRun \in BOOLEAN
  /\ tool \in Tools
  /\ dryRun \/ \A i, j \in 1..Len(tickets) :
                  (IsInvalid(tickets[i]) /\ IsInvalid(tickets[j])) => i = j
  /\ refused \in SUBSET {i \in 1..Len(tickets) : ~dryRun /\ IsInvalid(tickets[i])}

\* a run that is not a dry run on a table of two invalid rows, a legacy list
\* and a value that is not a list; the database refuses the update of the
\* first row, and accepts or refuses that of the second
InitRetry ==
  /\ MigrationStart
  /\ tickets = <<TicketRow(1, FlatArray(LegacyTicket)), TicketRow(2, StoredOther)>>
  /\ dryRun = FALSE
  /\ tool \in Tools
  /\ refused \in {{1}, {1, 2}}

\* select('*').order('created_at'), then validateExistingTicket on each row
Analyze ==
  /\ fixPc = "start"
  /\ \/ \* the select fails: the error is thrown, no result is returned
        /\ fixPc' = "rejected"
        /\ UNCHANGED <<invalidTickets, at, results>>
     \/ /\ invalidTickets' = InvalidTicketsFrom(tickets, 1)
        /\ results' = NoResults
        /\ at' = 1
        /\ fixPc' = IF Len(invalidTickets') = 0 THEN "returned" ELSE "loop"
  /\ UNCHANGED <<tickets, refused, dryRun, tool>>
  /\ UNCHANGED <<genVars, valVars, showVars>>

\* mutation: the dryRun flag is ignored
ShouldFixAlways(flag) == TRUE

\* if (!dryRun)
ShouldFix(flag) == ~flag

\* one turn of the loop up to the call of generateHousieTicket
MigrateNext ==
  /\ fixPc = "loop"
  /\ at <= Len(invalidTickets)
  /\ results' = [results EXCEPT !.processed = @ + 1]
  /\ IF ShouldFix(dryRun)
     THEN /\ variant' = IF tool = "client" THEN "client" ELSE "fix"
          /\ rng' = rng
          /\ pc' = "sweep"
          /\ col' = 0
          /\ columnCounts' = [c \in Cols |-> 0]
          /\ columnNumbers' = [c \in Cols |-> <<>>]
          /\ totalNumbers' = 0
          /\ columnsToUse' = {}
          /\ grid' = EmptyGrid
          /\ flatNumbers' = <<>>
          /\ thrown' = "none"
          /\ caller' = "fixSingleTicket"
          /\ fixPc' = "fixing"
          /\ at' = at
     ELSE /\ at' = at + 1
          /\ fixPc' = "loop"
          /\ UNCHANGED <<genVars, caller>>
  /\ UNCHANGED <<tickets, refused, dryRun, tool, invalidTickets, ticketGrid,
                 analysis>>
  /\ UNCHANGED valVars

\* mutation: the update leaves the numbers column alone
UpdateWhereIdStampOnly(table, ticketId, newNumbers) ==
  [i \in 1..Len(table) |->
     IF table[i].id = ticketId
     THEN [table[i] EXCEPT !.updated_at = Now]
     ELSE table[i]] \o <<>>

\* mutation: the update rewrites the purchase timestamp as well
UpdateWhereIdAlsoCreated(table, ticketId, newNumbers) ==
  [i \in 1..Len(table) |->
     IF table[i].id = ticketId
     THEN [table[i] EXCEPT !.numbers = newNumbers, !.updated_at = Now,
                           !.created_at = Now]
     ELSE table[i]] \o <<>>

\* update({numbers, updated_at}).eq('id', ticketId)
UpdateWhereId(table, ticketId, newNumbers) ==
  [i \in 1..Len(table) |->
     IF table[i].id = ticketId
     THEN [table[i] EXCEPT !.numbers = newNumbers, !.updated_at = Now]
     ELSE table[i]] \o <<>>

\* the entry pushed to results.errors
FixError(outcome, ticketId) ==
  IF tool = "client" THEN <<"Failed to fix ticket", ticketId>>
  ELSE IF outcome = "error" THEN <<"Failed to update ticket", ticketId>>
  ELSE <<"Error fixing ticket", ticketId>>

\* mutation: the failure is counted, its error entry is not kept
CountFailureNoEntry(counts, entry) ==
  [counts EXCEPT !.failed = @ + 1]

\* results.failed++; results.errors.push(entry)
CountFailure(counts, entry) ==
  [counts EXCEPT !.failed = @ + 1, !.errors = Append(@, entry)]

\* what the update of a row can come to: it succeeds, or the database
\* refuses it, answering with an error or throwing; a generator that has
\* thrown leaves the row alone
UpdateOutcomes(ticketId) ==
  IF pc = "failed" THEN {"thrown"}
  ELSE IF ticketId \in refused THEN {"error", "thrown"}
  ELSE {"updated"}

\* the rest of the turn: the update of the row and the bookkeeping
FixUpdate ==
  /\ fixPc = "fixing"
  /\ caller = "fixSingleTicket"
  /\ pc \in {"done", "failed"}
  /\ LET ticketId == invalidTickets[at].ticket.id
     IN \E outcome \in UpdateOutcomes(ticketId) :
          IF outcome = "updated"
          THEN /\ tickets' = UpdateWhereId(tickets, ticketId, FlatArray(flatNumbers))
               /\ results' = [results EXCEPT !.fixed = @ + 1]
          ELSE /\ tickets' = tickets
               /\ results' = CountFailure(results, FixError(outcome, ticketId))
  /\ at' = at + 1
  /\ fixPc' = "loop"
  /\ pc' = "idle"
  /\ caller' = "none"
  /\ UNCHANGED <<variant, col, columnCounts, columnNumbers, totalNumbers,
                 columnsToUse, rng, grid, flatNumbers, thrown>>
  /\ UNCHANGED <<refused, dryRun, tool, invalidTickets, ticketGrid, analysis>>
  /\ UNCHANGED valVars

\* the loop is over: return results
MigrateReturn ==
  /\ fixPc = "loop"
  /\ at > Len(invalidTickets)
  /\ fixPc' = "returned"
  /\ UNCHANGED <<tickets, refused, dryRun, tool, invalidTickets, at, results>>
  /\ UNCHANGED <<genVars, valVars, showVars>>

NextFix ==
  \/ Analyze
  \/ MigrateNext
  \/ SweepColumn
  \/ SweepEnd
  \/ AdjustAdd
  \/ PlaceInGrid
  \/ Finish
  \/ FixUpdate
  \/ MigrateReturn

SpecFix == InitFix /\ [][NextFix]_vars

\* the migration on a table whose first update is refused
SpecRetry == InitRetry /\ [][NextFix]_vars

(* ----------------- stored tickets in the ticket viewer ----------------- *)
\* const validation = validateTicketFormat(ticket.numbers)
ValidateFormat ==
  /\ validation = NoReport
  /\ validation' = <<validateTicketFormat(numbers)>>
  /\ UNCHANGED <<numbers, edits>>
  /\ UNCHANGED <<genVars, showVars, migVars>>

NextView == ReplaceEntry \/ AppendEntry \/ DropEntry \/ ValidateFormat

SpecView == InitVal /\ [][NextView]_vars

(* ------------- the format badge and the migration's verdict ------------ *)
\* the proper ticket stored as its JSON text
ProperTicketText ==
  << "[", "4", ",", "9", ",", "1", "0", ",", "1", "9", ",", "2", "3",
     ",", "3", "0", ",", "3", "9", ",", "4", "5", ",", "5", "1", ",",
     "5", "8", ",", "6", "0", ",", "6", "9", ",", "7", "7", ",", "8",
     "0", ",", "9", "0", "]" >>

InitBadge ==
  /\ GenIdle
  /\ numbers \in {FlatArray(ProperTicket), FlatArray(LegacyTicket),
                  FlatArray(PackedTicket), StoredOther,
                  StoredString(ProperTicketText)}
                 \cup {StoredString(text) : text \in StoredTexts}
  /\ validation = NoReport
  /\ edits = 0

\* the migration's analysis judges the ticket whose badge the dialog shows
ValidateForMigration ==
  /\ Len(validation) = 1
  /\ validation' = Append(validation, validateExistingTicket(numbers))
  /\ UNCHANGED <<numbers, edits>>
  /\ UNCHANGED <<genVars, showVars, migVars>>

NextBadge ==
  ReplaceEntry \/ AppendEntry \/ DropEntry \/ ValidateFormat \/ ValidateForMigration

SpecBadge == InitBadge /\ [][NextBadge]_vars

(* ============================== claims ================================= *)
\* the range the specification gives to column c: 1-9, 10-19, ..., 80-90
ClaimedRange(c) ==
  IF c = 0 THEN 1..9 ELSE IF c = 8 THEN 80..90 ELSE (10 * c)..(10 * c + 9)

Returned == pc = "done"

\* C1: the returned grid has exactly 15 non-empty cells and exactly 5
\* non-empty cells in each of its 3 rows.
C1_FifteenCellsFivePerRow ==
  Returned =>
    /\ Cardinality(FilledCells(grid)) = 15
    /\ \A row \in Rows : Cardinality({c \in Cols : grid[row][c] # 0}) = 5

\* a grid returned by the fix-tickets generator (which has no self-check),
\* one of its columns full
C1_Witness ==
  /\ Returned
  /\ variant = "fix"
  /\ \E c \in Cols : \A row \in Rows : grid[row][c] # 0

\* C2: in the returned grid no column holds more than 3 non-empty cells and
\* every non-empty cell of column c holds a number of column c's range.
C2_ColumnsInRange ==
  Returned =>
    \A c \in Cols :
      /\ Cardinality({row \in Rows : grid[row][c] # 0}) <= 3
      /\ \A row \in Rows : grid[row][c] # 0 => grid[row][c] \in ClaimedRange(c)

\* a returned grid that holds the ends of the ranges: 9 and 10, and 90
C2_Witness ==
  /\ Returned
  /\ \E row \in Rows : grid[row][0] = 9
  /\ \E row \in Rows : grid[row][1] = 10
  /\ \E row \in Rows : grid[row][8] = 90

\* C3: the 15 numbers of the returned grid are pairwise distinct.
C3_PairwiseDistinct ==
  Returned =>
    \A rc1 \in FilledCells(grid), rc2 \in FilledCells(grid) :
      rc1 # rc2 => grid[rc1[1]][rc1[2]] # grid[rc2[1]][rc2[2]]

\* a grid returned by an edge-function generator whose sweep drew twice from
\* one column
C3_Witness ==
  /\ Returned
  /\ variant # "client"
  /\ \E c \in Cols : columnCounts[c] = 3
  /\ Cardinality(FilledCells(grid)) = 15

\* C4: in the returned grid the numbers of each column are in ascending
\* order from the top row to the bottom row.
C4_AscendingInColumn ==
  Returned =>
    \A c \in Cols : \A r1 \in Rows, r2 \in Rows :
      (r1 < r2 /\ grid[r1][c] # 0 /\ grid[r2][c] # 0) => grid[r1][c] < grid[r2][c]

\* C5: validateExistingTicket applied to the returned flatNumbers returns
\* isValid = true with an empty issues list.
C5_ValidatorAccepts ==
  Returned =>
    validateExistingTicket(FlatArray(flatNumbers)) = [isValid |-> TRUE, issues |-> <<>>]

\* a returned ticket with a column at the validator's limit of 3
C5_Witness ==
  /\ Returned
  /\ Len(flatNumbers) = 15
  /\ \E c \in Cols :
       Cardinality({i \in 1..15 : flatNumbers[i] \in ClaimedRange(c)}) = 3

\* C6: the self-check never fails: the state in which generateHousieTicket
\* throws 'Invalid ticket: ...' is unreachable.
C6_NeverThrows == pc # "failed" /\ thrown = "none"

\* the self-check has run on a grid and passed
C6_Witness ==
  /\ Returned
  /\ variant \in {"client", "buy"}
  /\ validateTicket(grid) = "none"

\* C7: generateHousieTicket terminates, in the client generator and in the
\* edge-function generators: every run reaches its return (or its throw).
C7_Terminates == <>(pc = "done" \/ pc = "failed")

\* an edge-function run that needed more than one sweep (a batch is at most
\* 2, so a column of 3 was visited twice) and returned
C7_Witness ==
  /\ Returned
  /\ variant = "buy"
  /\ \E c \in Cols : Len(columnNumbers[c]) = 3

\* C8: flatNumbers is a list of exactly 15 integers in strictly ascending
\* order whose set equals the set of non-empty cells of the returned grid.
C8_FlatSortedSameSet ==
  Returned =>
    /\ Len(flatNumbers) = 15
    /\ \A i \in 1..(Len(flatNumbers) - 1) : flatNumbers[i] < flatNumbers[i + 1]
    /\ {flatNumbers[i] : i \in 1..Len(flatNumbers)}
         = {grid[rc[1]][rc[2]] : rc \in FilledCells(grid)}

\* a returned grid whose row-by-row reading is not ascending
C8_Witness ==
  /\ Returned
  /\ \E c1 \in Cols, c2 \in Cols :
       c1 < c2 /\ grid[1][c1] # 0 /\ grid[0][c2] # 0 /\ grid[1][c1] < grid[0][c2]

\* the positions of the positive numeric entries of the stored list
PositiveEntries == {i \in 1..Len(numbers.items) :
                      numbers.items[i].isNumber /\ numbers.items[i].v > 0}

\* C9: the validator returns isValid = true if and only if the positive
\* numeric entries number exactly 15, are pairwise distinct, all lie in 1..90
\* and no column range contains more than 3 of them; isValid is true exactly
\* when the issues list is empty.
C9_ValidIffFourRules ==
  (validation # NoReport /\ numbers.kind = "array") =>
    LET v(i) == numbers.items[i].v
    IN /\ validation[1].isValid <=>
            /\ Cardinality(PositiveEntries) = 15
            /\ \A i \in PositiveEntries, j \in PositiveEntries : i # j => v(i) # v(j)
            /\ \A i \in PositiveEntries : v(i) \in 1..90
            /\ \A c \in Cols :
                 Cardinality({i \in PositiveEntries : v(i) \in ClaimedRange(c)}) <= 3
       /\ validation[1].isValid <=> validation[1].issues = <<>>

\* a valid report on a list that holds filler entries and a full column
C9_Witness ==
  /\ validation # NoReport
  /\ validation[1].isValid
  /\ Len(numbers.items) > 15
  /\ \E c \in Cols :
       Cardinality({i \in PositiveEntries : numbers.items[i].v \in ClaimedRange(c)}) = 3

\* C10: when the number n of positive numeric entries differs from 15 the
\* issues contain 'Has n numbers instead of 15' with n the actual count,
\* whatever other rules the list violates; when n = 15 there is no such issue.
C10_CountIssue ==
  (validation # NoReport /\ numbers.kind = "array") =>
    LET n == Cardinality(PositiveEntries)
        countIssues == {k \in 1..Len(validation[1].issues) :
                          validation[1].issues[k].text = "Has n numbers instead of 15"}
    IN /\ n # 15 => \E k \in countIssues : validation[1].issues[k].a = n
       /\ \A k \in countIssues : validation[1].issues[k].a = n
       /\ n = 15 => countIssues = {}

\* a report on a list of 16 numbers that carries the count issue together
\* with a range issue and a column issue
C10_Witness ==
  /\ validation # NoReport
  /\ Cardinality(PositiveEntries) = 16
  /\ \E k \in 1..Len(validation[1].issues) :
       validation[1].issues[k].text = "Has n numbers instead of 15"
  /\ \E k \in 1..Len(validation[1].issues) :
       validation[1].issues[k].text = "Number n is outside valid range 1-90"
  /\ \E k \in 1..Len(validation[1].issues) :
       validation[1].issues[k].text = "Column k has m numbers (max 3 allowed)"

\* the issues of the report that carry the given text, in report order
IssuesWith(text) ==
  SelectSeq(validation[1].issues, LAMBDA issue : issue.text = text)

\* C11: the validator emits one issue 'Number v is outside valid range 1-90'
\* for each entry v that is positive and greater than 90, one per occurrence
\* and in input order, and none for an entry in 1..90; the range issues are
\* as many as the out-of-range entries.
C11_RangeIssues ==
  (validation # NoReport /\ numbers.kind = "array") =>
    LET rangeIssues == IssuesWith("Number n is outside valid range 1-90")
        tooLarge == SelectSeq(numbers.items, LAMBDA e : e.isNumber /\ e.v > 90)
    IN /\ Len(rangeIssues) = Len(tooLarge)
       /\ \A k \in 1..Len(rangeIssues) :
            /\ rangeIssues[k].a = tooLarge[k].v
            /\ rangeIssues[k].a \notin 1..90

\* a report on a list that holds 95 before 91 and the in-range limit 90
C11_Witness ==
  /\ validation # NoReport
  /\ numbers.kind = "array"
  /\ \E i \in PositiveEntries : numbers.items[i].v = 90
  /\ LET rangeIssues == IssuesWith("Number n is outside valid range 1-90")
     IN /\ Len(rangeIssues) = 2
        /\ rangeIssues[1].a = 95
        /\ rangeIssues[2].a = 91

\* C12: the validator emits 'Column k has m numbers (max 3 allowed)' exactly
\* for the columns k (1-based) whose range holds m > 3 of the positive
\* numeric entries, in ascending column order, and the regeneration summary
\* exactly once, as the last issue, if and only if some column overflows.
C12_ColumnIssues ==
  (validation # NoReport /\ numbers.kind = "array") =>
    LET issues == validation[1].issues
        m(c) == Cardinality({i \in PositiveEntries :
                               numbers.items[i].v \in ClaimedRange(c)})
        overflowing == {c \in Cols : m(c) > 3}
        columnIssues == IssuesWith("Column k has m numbers (max 3 allowed)")
        summaryAt == {k \in 1..Len(issues) :
                        issues[k].text = "Ticket needs regeneration for proper Housie format"}
    IN /\ Len(columnIssues) = Cardinality(overflowing)
       /\ \A k \in 1..Len(columnIssues) :
            /\ (columnIssues[k].a - 1) \in overflowing
            /\ columnIssues[k].b = m(columnIssues[k].a - 1)
       /\ \A k \in 1..(Len(columnIssues) - 1) : columnIssues[k].a < columnIssues[k + 1].a
       /\ summaryAt = IF overflowing # {} THEN {Len(issues)} ELSE {}

\* a report that names two overflowing columns, the first and the second,
\* before the summary
C12_Witness ==
  /\ validation # NoReport
  /\ numbers.kind = "array"
  /\ LET columnIssues == IssuesWith("Column k has m numbers (max 3 allowed)")
     IN /\ Len(columnIssues) = 2
        /\ columnIssues[1].a = 1
        /\ columnIssues[2].a = 2
  /\ validation[1].issues[Len(validation[1].issues)].text
       = "Ticket needs regeneration for proper Housie format"

\* a candidate that cannot be coerced into a list: neither a string nor an
\* array, a text that is not JSON, or a text whose JSON value is not an array
Malformed ==
  \/ numbers.kind = "other"
  \/ /\ numbers.kind = "string"
     /\ LET parsed == JSONparse(numbers.chars)
        IN ~parsed.ok \/ parsed.value.kind # "array"

\* C13 as stated: for every candidate that cannot be coerced into a numeric
\* list, validateExistingTicket returns isValid = false with exactly one
\* issue, the invalid-number-format issue.
C13_InvalidNumberFormat ==
  (validation # NoReport /\ Malformed) =>
    validation[1] = [isValid |-> FALSE,
                     issues |-> <<Issue("Invalid number format", 0, 0)>>]

\* C13, amended: for every candidate that cannot be coerced into a numeric
\* list, validateExistingTicket returns (it does not throw) isValid = false
\* with exactly one issue: 'Invalid number format' when the candidate is
\* neither a string nor an array, 'Error validating ticket: <error>' when it
\* is a text that is not JSON or whose JSON value is not an array.
C13_SingleIssue ==
  (validation # NoReport /\ Malformed) =>
    /\ ~validation[1].isValid
    /\ Len(validation[1].issues) = 1
    /\ validation[1].issues[1].text =
         IF numbers.kind = "other" THEN "Invalid number format"
         ELSE IF JSONparse(numbers.chars).ok
              THEN "Error validating ticket: TypeError"
              ELSE "Error validating ticket: SyntaxError"

\* a report on a text that is JSON but holds a number, not an array
C13_Witness ==
  /\ validation # NoReport
  /\ numbers.kind = "string"
  /\ JSONparse(numbers.chars).ok
  /\ JSONparse(numbers.chars).value.kind = "number"
  /\ Len(validation[1].issues) = 1

\* the entries of a list that are not filler
WithoutFiller(items) == SelectSeq(items, LAMBDA e : e.isNumber /\ e.v > 0)

RECURSIVE SumOf(_, _)
SumOf(vector, k) == IF k > Len(vector) THEN 0 ELSE vector[k] + SumOf(vector, k + 1)

FifteenInColumns ==
  /\ numbers.kind = "array"
  /\ Len(numbers.items) = 15
  /\ \A i \in 1..15 : numbers.items[i].isNumber /\ numbers.items[i].v \in 1..90
  /\ \A i, j \in 1..15 : i # j => numbers.items[i].v # numbers.items[j].v
  /\ \A c \in Cols :
       Cardinality({i \in 1..15 : numbers.items[i].v \in ClaimedRange(c)}) <= 3

\* C17: for every flat list of 15 pairwise distinct numbers in 1..90 with at
\* most 3 numbers in each column range, the layout made by hand has exactly
\* 5 numbers in each of the 3 rows, and the cell of every number is fixed by
\* the list alone: the number with k smaller numbers in the list is in row
\* k mod 3 of its column, so that a second render gives the same cells.
C17_FivePerRowSameCells ==
  (pc = "shown" /\ FifteenInColumns) =>
    LET g == ticketGrid[1]
        listed == {numbers.items[i].v : i \in 1..15}
        smaller(v) == Cardinality({w \in listed : w < v})
    IN /\ \A row \in Rows : NumbersInRow(g, row) = 5
       /\ \A v \in listed :
            \E c \in Cols : v \in ClaimedRange(c) /\ g[smaller(v) % 3][c] = v

\* a list that is not in ascending order has been laid out, 5 to a row
C17_Witness ==
  /\ pc = "shown"
  /\ FifteenInColumns
  /\ \E i \in 1..14 : numbers.items[i].v > numbers.items[i + 1].v
  /\ \A row \in Rows : NumbersInRow(ticketGrid[1], row) = 5

\* some column range holds more than 3 of the list's numbers
ColumnOverflowIn(items) ==
  \E c \in Cols :
    Cardinality({i \in 1..Len(items) :
                   items[i].isNumber /\ items[i].v \in ClaimedRange(c)}) > 3

\* the six invariants of a ticket grid
SixInvariants(g) ==
  /\ Cardinality(FilledCells(g)) = 15
  /\ \A row \in Rows : NumbersInRow(g, row) = 5
  /\ \A c \in Cols : NumbersInCol(g, c) <= 3
  /\ \A c \in Cols : \A row \in Rows : g[row][c] # 0 => g[row][c] \in ClaimedRange(c)
  /\ \A rc1 \in FilledCells(g), rc2 \in FilledCells(g) :
       rc1 # rc2 => g[rc1[1]][rc1[2]] # g[rc2[1]][rc2[2]]
  /\ \A c \in Cols : \A r1 \in Rows, r2 \in Rows :
       (r1 < r2 /\ g[r1][c] # 0 /\ g[r2][c] # 0) => g[r1][c] < g[r2][c]

\* C18: a flat list of any length in which some column range holds more
\* than 3 numbers is shown without an error, as a grid that satisfies all
\* six grid invariants.
C18_OverflowShownAsProperGrid ==
  (pc = "shown" /\ numbers.kind = "array" /\ ColumnOverflowIn(numbers.items)) =>
    SixInvariants(ticketGrid[1])

\* C20: in a run of fixInvalidTickets or of the fix-tickets function with
\* dryRun = true no step changes the tickets table, and the result returned
\* has processed equal to the number of invalid tickets, fixed = 0,
\* failed = 0 and no errors.
C20_DryRunChangesNothing ==
  /\ [][dryRun => tickets' = tickets]_vars
  /\ []((dryRun /\ fixPc = "returned") =>
          results = [processed |-> Cardinality({i \in 1..Len(tickets) :
                                                 IsInvalid(tickets[i])}),
                     fixed |-> 0, failed |-> 0, errors |-> <<>>])

\* a dry run has returned from a table of at least two rows, all invalid
C20_Witness ==
  /\ dryRun
  /\ fixPc = "returned"
  /\ Len(tickets) >= 2
  /\ results.processed = Len(tickets)

\* C19: for every result {grid, flatNumbers} of generateHousieTicket,
\* laying out flatNumbers with the grid-reconstruction routine yields a grid
\* identical, cell for cell, to grid.
C19_SameGrid ==
  (pc = "shown" /\ caller = "handler") => ticketGrid[1] = grid

\* C21: when a migration that is not a dry run has returned with failed = 0,
\* an analysis of the table finds no invalid ticket: every row passes
\* validateExistingTicket.
C21_NoInvalidAfterFix ==
  (~dryRun /\ fixPc = "returned" /\ results.failed = 0) =>
    InvalidTicketsFrom(tickets, 1) = <<>>

\* a run has fixed an invalid row, next to a row that was valid
C21_Witness ==
  /\ ~dryRun
  /\ fixPc = "returned"
  /\ results.fixed = 1
  /\ results.failed = 0
  /\ Len(tickets) >= 2

\* C22: in a migration that is not a dry run a refused update is counted
\* in failed with one error entry for its row, the rows after it are still
\* processed, and on return processed = fixed + failed = the number of
\* invalid tickets found, errors holding exactly failed entries.
C22_FailureIsCounted ==
  /\ Len(results.errors) = results.failed
  /\ (~dryRun /\ fixPc = "returned") =>
       /\ results.processed = results.fixed + results.failed
       /\ results.processed = Len(invalidTickets)
       /\ \A k \in 1..Len(invalidTickets) :
            LET ticketId == invalidTickets[k].ticket.id
            IN Cardinality({e \in 1..Len(results.errors) :
                              results.errors[e][2] = ticketId})
                 = IF ticketId \in refused THEN 1 ELSE 0

\* the update of the first row was refused and the second row was fixed
C22_Witness ==
  /\ ~dryRun
  /\ fixPc = "returned"
  /\ results.failed = 1
  /\ results.fixed = 1
  /\ results.errors[1][2] = 1
  /\ ~IsInvalid(tickets[2])

\* C23: the migration writes only to rows its analysis found invalid, and
\* only in a live run; a write changes the row's numbers and updated_at and
\* leaves id, game_id, user_id and created_at as they were; no row is
\* added or removed
C23_OnlyNumbersAndStamp ==
  [][/\ Len(tickets') = Len(tickets)
     /\ \A i \in 1..Len(tickets) :
          /\ tickets'[i].id = tickets[i].id
          /\ tickets'[i].game_id = tickets[i].game_id
          /\ tickets'[i].user_id = tickets[i].user_id
          /\ tickets'[i].created_at = tickets[i].created_at
          /\ (tickets'[i] # tickets[i]) => (~dryRun /\ IsInvalid(tickets[i]))]_vars

\* a live run has rewritten one row and left a valid row as it was stored
C23_Witness ==
  /\ ~dryRun
  /\ fixPc = "returned"
  /\ Len(tickets) = 2
  /\ \E i, j \in 1..2 :
       /\ tickets[i].updated_at = Now
       /\ tickets[i].created_at = i
       /\ tickets[i].numbers # FlatArray(LegacyTicket)
       /\ tickets[j] = TicketRow(j, FlatArray(ProperTicket))

\* C24: in every migration path a regenerated ticket is written to the store
\* only after the generator's self-check has run on it and passed
C24_ValidatedBeforeSaving ==
  [][(tickets' # tickets) => SelfCheckPassed]_vars

\* C25: the generator's bookkeeping stays within bounds. columnCounts[c] is
\* the number of numbers chosen for column c and at most 3, totalNumbers is
\* the sum of the column counts and at most 15; a sweep step that finds room
\* in its column adds 1 or 2 numbers to it, never more than the column's
\* remaining capacity or the remaining need, and touches no other column;
\* the removal of the excess removes nothing.
CountedTotal ==
  columnCounts[0] + columnCounts[1] + columnCounts[2] + columnCounts[3]
    + columnCounts[4] + columnCounts[5] + columnCounts[6] + columnCounts[7]
    + columnCounts[8]

BatchAdded(c) == Len(columnNumbers'[c]) - Len(columnNumbers[c])

C25_BookkeepingInBounds ==
  /\ [](/\ \A c \in Cols : /\ columnCounts[c] = Len(columnNumbers[c])
                            /\ columnCounts[c] <= 3
        /\ totalNumbers = CountedTotal
        /\ totalNumbers <= targetNumbers)
  /\ [][/\ (pc = "sweep" /\ col' = col + 1) =>
             /\ \A c \in Cols \ {col} : columnNumbers'[c] = columnNumbers[c]
             /\ IF columnCounts[col] < 3
                THEN /\ BatchAdded(col) \in {1, 2}
                     /\ BatchAdded(col) <= 3 - columnCounts[col]
                     /\ BatchAdded(col) <= targetNumbers - totalNumbers
                ELSE BatchAdded(col) = 0
        /\ (pc = "adjust" /\ pc' = "placed") =>
             /\ columnNumbers' = columnNumbers
             /\ totalNumbers' = totalNumbers]_vars

\* the numbers are placed, fifteen of them, and a column holds three
C25_Witness ==
  /\ pc = "placed"
  /\ totalNumbers = targetNumbers
  /\ \E c \in Cols : columnCounts[c] = 3 /\ Len(columnNumbers[c]) = 3

\* C26: during number selection the list of numbers chosen for a column is
\* in strictly ascending order, after every insertion of the sweep and of the
\* normalisation, in the client generator and in both edge generators
C26_ColumnListsAscending ==
  \A c \in Cols : \A i, j \in 1..Len(columnNumbers[c]) :
    i < j => columnNumbers[c][i] < columnNumbers[c][j]

\* C27: the row placement of the generator skips no number and puts no two
\* numbers of a column into one row: the k-th number in processing order
\* (columns ascending, k from 0) lands in row k mod 3, and after every
\* placement the three row counts differ by at most 1.
PlacedSoFar(items, n) ==
  PlaceAll([grid |-> EmptyGrid, rowCounts |-> [r \in Rows |-> 0]],
           SubSeq(items, 1, n), 1)

RoundRobinUpTo(items, n, st) ==
  /\ \A k \in 0..(n - 1) : st.grid[k % 3][items[k + 1].col] = items[k + 1].num
  /\ Cardinality(FilledCells(st.grid)) = n
  /\ st.rowCounts[0] + st.rowCounts[1] + st.rowCounts[2] = n
  /\ \A r1, r2 \in Rows : st.rowCounts[r1] - st.rowCounts[r2] <= 1

C27_RoundRobinPlacement ==
  pc \in {"placed", "done", "failed"} =>
    LET items == AllNumbers(columnNumbers, 0) \o <<>>
    IN /\ \A n \in 0..Len(items) : RoundRobinUpTo(items, n, PlacedSoFar(items, n))
       /\ grid = PlacedSoFar(items, Len(items)).grid

\* fifteen numbers are placed and one column gave three of them
C27_Witness ==
  /\ pc = "placed"
  /\ Cardinality(FilledCells(grid)) = 15
  /\ \E c \in Cols : Len(columnNumbers[c]) = 3 /\ NumbersInCol(grid, c) = 3

\* the stored value is a flat list of at most 15 numbers above zero, and no
\* column range holds more than 3 of them
PositiveListInColumns ==
  /\ numbers.kind = "array"
  /\ Len(numbers.items) <= 15
  /\ \A i \in 1..Len(numbers.items) : numbers.items[i].isNumber /\ numbers.items[i].v > 0
  /\ ~ColumnOverflowIn(numbers.items)

OccurrencesStored(v) ==
  Cardinality({i \in 1..Len(numbers.items) : numbers.items[i].v = v})

\* the numbers of the stored list that are in 1..90
StoredIn1To90 ==
  {numbers.items[i].v : i \in 1..Len(numbers.items)} \cap (1..90)

\* the number v is in the column of its range as often as in the stored list
KeptInColumn(g, v) ==
  \A c \in Cols :
    v \in ClaimedRange(c) =>
      Cardinality({row \in Rows : g[row][c] = v}) = OccurrencesStored(v)

\* C28: the layout by hand, which picks a row without looking whether the
\* cell is taken, never overwrites a cell: for every flat list of at most 15
\* positive numbers with no column range holding more than 3 of them, every
\* number of the list in 1..90 is in the grid, in the column of its range,
\* as many times as it is in the list; in HousieTicket and, where it runs
\* the same layout, in analyzeTicket.
C28_NoCellOverwritten ==
  (pc = "shown" /\ PositiveListInColumns) =>
    /\ \A v \in StoredIn1To90 : KeptInColumn(ticketGrid[1], v)
    /\ (analysis # NoGrid /\ analysis[1].step = "layout") =>
         \A v \in StoredIn1To90 : KeptInColumn(analysis[1].grid, v)

\* a list of 15 with a number stored twice has been laid out by both
C28_Witness ==
  /\ pc = "shown"
  /\ PositiveListInColumns
  /\ Len(numbers.items) = 15
  /\ \E v \in StoredIn1To90 : OccurrencesStored(v) = 2 /\ KeptInColumn(ticketGrid[1], v)
  /\ analysis # NoGrid
  /\ analysis[1].step = "layout"

\* the stored value is a flat list of numbers, of any length, and no column
\* range holds more than 3 of them
FlatListInColumns ==
  /\ numbers.kind = "array"
  /\ \A i \in 1..Len(numbers.items) : numbers.items[i].isNumber
  /\ ~ColumnOverflowIn(numbers.items)

\* C30: for every stored flat list of numbers, whatever its length, in which
\* no column range holds more than 3 numbers, the grid analyzeTicket builds
\* to find the completed lines is, cell for cell, the grid HousieTicket
\* builds for display.
C30_AnalysedGridIsShownGrid ==
  (/\ pc = "shown"
   /\ FlatListInColumns
   /\ analysis # NoGrid
   /\ analysis[1].step \in {"layout", "fallback", "generate"}) =>
    analysis[1].grid = ticketGrid[1]

\* C29: the format badge and the migration tool agree on which tickets need
\* fixing: for every stored ticket value (flat array, JSON text, ...)
\* validateTicketFormat reports isProperFormat = true if and only if
\* validateExistingTicket reports isValid = true.
C29_BadgeAgreesWithMigration ==
  Len(validation) = 2 => (validation[1].isProperFormat <=> validation[2].isValid)

====
